---- MODULE Spec2Model ----
(***************************************************************************)
(* A model of the copy-external synchronisation engine (src/main.ts, the   *)
(* plugin of lines 226-593): the event handlers syncFileCreate,            *)
(* syncFileModify, syncFileDelete, syncFileRename and the start-up pass    *)
(* syncExistingFiles, over an explicit model of the vault (the source      *)
(* tree) and of the target filesystem with the error behaviour of the      *)
(* fs/promises calls the code makes.                                       *)
(***************************************************************************)
EXTENDS Integers, Sequences, FiniteSets, TLC

VARIABLES
    vault,      \* the source tree: relative path -> [type, content, mtime]
    fs,         \* the filesystem holding the target: absolute path -> [kind, content, mtime]
    settings,   \* this.settings
    home,       \* process.env.HOME
    now,        \* the clock that stamps filesystem writes
    last,       \* record of the latest handler (or pass) invocation
    prev,       \* outcome of the invocation before it
    faithful,   \* so far every vault change was delivered as its event with the root available, and nothing else touched the target
    steps,      \* number of actions taken
    subs,       \* the event kinds onload has registered a callback for
    tasks,      \* the invocations begun, each suspended at an await or finished, in the order they began
    turns       \* whose I/O calls completed, in order: the invocation of each run of calls (0: an event no callback took)

vars == <<vault, fs, settings, home, now, last, prev, faithful, steps, subs, tasks, turns>>

\* the state of the invocations that run step by step
stepVars == <<subs, tasks, turns>>

----------------------------------------------------------------------------
(* Bounds *)

\* most path segments of a vault item
MaxDepth == 3
\* file contents are 1..MaxContent
MaxContent == 2
\* times are 0..MaxTime
MaxTime == 2
\* most actions in a behaviour
MaxEvents == 2
\* most entries of the vault, and of the target, at start-up
MaxSeed == 2

\* the segment names, in the order the vault lists them
NameOrder == <<"a", "b">>

Names == {NameOrder[i] : i \in 1..Len(NameOrder)}

NoHome == <<"undefined">>

\* all sequences over S of length 1..n
RECURSIVE SeqsUpTo(_, _)
SeqsUpTo(S, n) ==
    IF n = 0 THEN {}
    ELSE LET shorter == SeqsUpTo(S, n - 1)
         IN  {<<x>> : x \in S} \cup shorter \cup
             {Append(p, x) : p \in {q \in shorter : Len(q) = n - 1}, x \in S}

RelPaths == SeqsUpTo(Names, MaxDepth)
Contents == 1..MaxContent
Times == 0..MaxTime

----------------------------------------------------------------------------
(* Paths: path.dirname and path.join on sequences of segments *)

Dirname(p) == IF Len(p) = 0 THEN p ELSE SubSeq(p, 1, Len(p) - 1)

Join(dir, rel) == dir \o rel

Basename(p) == IF Len(p) = 0 THEN "" ELSE p[Len(p)]

IsPrefix(p, q) == Len(p) <= Len(q) /\ SubSeq(q, 1, Len(p)) = p

IsStrictPrefix(p, q) == Len(p) < Len(q) /\ SubSeq(q, 1, Len(p)) = p

\* the prefixes of p longer than the prefix a of p, p included
PrefixesBelow(a, p) == {SubSeq(p, 1, n) : n \in (Len(a) + 1)..Len(p)}

----------------------------------------------------------------------------
(* The filesystem: a function from the existing absolute paths to entries. *)
(* <<>> is the filesystem root, always a directory.  Each operation        *)
(* returns [err, fs]: err = "" and the new filesystem, or the error code   *)
(* and the filesystem unchanged.                                           *)

FExists(f, p) == p = <<>> \/ p \in DOMAIN f

FIsDir(f, p) == p = <<>> \/ (p \in DOMAIN f /\ f[p].kind = "dir")

FIsFile(f, p) == p \in DOMAIN f /\ f[p].kind = "file"

DirEntry(t) == [kind |-> "dir", content |-> 0, mtime |-> t]

FileEntry(c, t) == [kind |-> "file", content |-> c, mtime |-> t]

\* f with the entries of g added or replaced
Overlay(f, g) ==
    [p \in DOMAIN f \cup DOMAIN g |-> IF p \in DOMAIN g THEN g[p] ELSE f[p]]

Without(f, S) == [p \in DOMAIN f \ S |-> f[p]]

\* a directory's mtime changes when an entry is added to or removed from it
Touch(f, d, t) ==
    IF d \in DOMAIN f THEN [f EXCEPT ![d].mtime = t] ELSE f

Children(f, p) == {q \in DOMAIN f : Len(q) = Len(p) + 1 /\ IsPrefix(p, q)}

Subtree(f, p) == {q \in DOMAIN f : IsPrefix(p, q)}

\* the longest prefix of p that exists
RECURSIVE NearestExisting(_, _)
NearestExisting(f, p) ==
    IF FExists(f, p) THEN p ELSE NearestExisting(f, Dirname(p))

Ok(f) == [err |-> "", fs |-> f]

Fail(code, f) == [err |-> code, fs |-> f]

\* fs.stat(p): the entry, or an error
FsStat(f, p) ==
    IF p \in DOMAIN f THEN [err |-> "", kind |-> f[p].kind, mtime |-> f[p].mtime]
    ELSE IF p = <<>> THEN [err |-> "", kind |-> "dir", mtime |-> 0]
    ELSE [err |-> "ENOENT", kind |-> "none", mtime |-> 0]

\* fs.mkdir(p)
FsMkdir(f, p, t) ==
    IF FExists(f, p) THEN Fail("EEXIST", f)
    ELSE IF ~FExists(f, Dirname(p)) THEN Fail("ENOENT", f)
    ELSE IF ~FIsDir(f, Dirname(p)) THEN Fail("ENOTDIR", f)
    ELSE Ok(Touch(Overlay(f, [q \in {p} |-> DirEntry(t)]), Dirname(p), t))

\* the mkdir without its recursive option: one level only
FsMkdirRecursive_OneLevel(f, p, t) ==
    IF FExists(f, p) THEN [err |-> "EEXIST", fs |-> f]
    ELSE IF ~FIsDir(f, Dirname(p)) THEN [err |-> "ENOENT", fs |-> f]
    ELSE [err |-> "", fs |-> Overlay(f, [q \in {p} |-> DirEntry(t)])]

\* fs.mkdir(p, { recursive: true })
FsMkdirRecursive(f, p, t) ==
    IF FIsDir(f, p) THEN Ok(f)
    ELSE IF FExists(f, p) THEN Fail("EEXIST", f)
    ELSE LET a == NearestExisting(f, p)
         IN  IF ~FIsDir(f, a) THEN Fail("ENOTDIR", f)
             ELSE Ok(Touch(Overlay(f, [q \in PrefixesBelow(a, p) |-> DirEntry(t)]), a, t))

\* writeFile that refuses a file that exists (flag wx)
FsWriteFile_Exclusive(f, p, c, t) ==
    IF FExists(f, p) THEN [err |-> "EEXIST", fs |-> f]
    ELSE IF ~FIsDir(f, Dirname(p)) THEN [err |-> "ENOENT", fs |-> f]
    ELSE [err |-> "",
          fs |-> Touch(Overlay(f, [q \in {p} |-> FileEntry(c, t)]), Dirname(p), t)]

\* fs.writeFile(p, content)
FsWriteFile(f, p, c, t) ==
    IF FIsDir(f, p) THEN Fail("EISDIR", f)
    ELSE IF ~FExists(f, Dirname(p)) THEN Fail("ENOENT", f)
    ELSE IF ~FIsDir(f, Dirname(p)) THEN Fail("ENOTDIR", f)
    ELSE IF FExists(f, p) THEN Ok([f EXCEPT ![p] = FileEntry(c, t)])
    ELSE Ok(Touch(Overlay(f, [q \in {p} |-> FileEntry(c, t)]), Dirname(p), t))

\* fs.rm(p), no options: it neither forces nor recurses
FsRm(f, p, t) ==
    IF ~FExists(f, p) THEN Fail("ENOENT", f)
    ELSE IF FIsDir(f, p) THEN Fail("ERR_FS_EISDIR", f)
    ELSE Ok(Touch(Without(f, {p}), Dirname(p), t))

\* a rename that leaves the old entry behind: a copy
FsRename_KeepsOld(f, old, new, t) ==
    IF ~FExists(f, old) \/ ~FIsDir(f, Dirname(new)) \/ FExists(f, new)
    THEN [err |-> "ENOENT", fs |-> f]
    ELSE LET moved == Subtree(f, old)
             dest(q) == new \o SubSeq(q, Len(old) + 1, Len(q))
         IN  [err |-> "",
              fs |-> Overlay(f, [r \in {dest(q) : q \in moved} |->
                                    f[CHOOSE q \in moved : dest(q) = r]])]

\* fs.rename(old, new): moves the entry with everything below it
FsRename(f, old, new, t) ==
    IF ~FExists(f, old) \/ old = <<>> THEN Fail("ENOENT", f)
    ELSE IF ~FExists(f, Dirname(new)) THEN Fail("ENOENT", f)
    ELSE IF ~FIsDir(f, Dirname(new)) THEN Fail("ENOTDIR", f)
    ELSE IF old = new THEN Ok(f)
    ELSE IF IsStrictPrefix(old, new) THEN Fail("EINVAL", f)
    ELSE IF FIsDir(f, old) /\ FIsFile(f, new) THEN Fail("ENOTDIR", f)
    ELSE IF FIsFile(f, old) /\ FIsDir(f, new) THEN Fail("EISDIR", f)
    ELSE IF FIsDir(f, new) /\ Children(f, new) # {} THEN Fail("ENOTEMPTY", f)
    ELSE LET moved == Subtree(f, old)
             kept  == Without(f, moved \cup Subtree(f, new))
             dest(q) == new \o SubSeq(q, Len(old) + 1, Len(q))
             put   == [r \in {dest(q) : q \in moved} |->
                          f[CHOOSE q \in moved : dest(q) = r]]
         IN  Ok(Touch(Touch(Overlay(kept, put), Dirname(old), t), Dirname(new), t))

----------------------------------------------------------------------------
(* Configuration *)

HomeToken == "$HOME"

\* the directory the target lives in: home, when HOME is set
HomeDir == <<"home">>

DEFAULT_SETTINGS ==
    [targetDirectory |-> <<HomeToken, "notes">>,
     notifyCreate |-> TRUE,
     notifyModify |-> FALSE,
     notifyDelete |-> TRUE,
     notifyRename |-> TRUE]

\* String.replace(token, by): the first occurrence only
ReplaceFirst(s, token, by) ==
    IF \E i \in 1..Len(s) : s[i] = token
    THEN LET i == CHOOSE k \in 1..Len(s) :
                      s[k] = token /\ \A j \in 1..(k - 1) : s[j] # token
         IN  SubSeq(s, 1, i - 1) \o by \o SubSeq(s, i + 1, Len(s))
    ELSE s

expandTargetPath(S, h) ==
    IF h # NoHome THEN ReplaceFirst(S.targetDirectory, HomeToken, h)
    ELSE S.targetDirectory

\* the check without its isDirectory test
targetPathExists_AnyEntry(S, h, f) ==
    FsStat(f, expandTargetPath(S, h)).err = ""

\* the check made on the root resolved when the settings were loaded
targetPathExists_AtLoad(S, h, f) ==
    LET targetStat == FsStat(f, expandTargetPath(DEFAULT_SETTINGS, h))
    IN  IF targetStat.err = "" THEN targetStat.kind = "dir" ELSE FALSE

targetPathExists(S, h, f) ==
    LET targetStat == FsStat(f, expandTargetPath(S, h))
    IN  IF targetStat.err = "" THEN targetStat.kind = "dir" ELSE FALSE

----------------------------------------------------------------------------
(* An invocation in progress: the filesystem so far, the log of what it    *)
(* did (filesystem writes attempted, console warnings and errors, notices) *)
(* and whether an exception is propagating.                                *)

LogEntry(op, path, path2, nums, ok) ==
    [op |-> op, path |-> path, path2 |-> path2, nums |-> nums, ok |-> ok]

Start(f) == [fs |-> f, log |-> <<>>, threw |-> FALSE]

\* an awaited fs call: its effect, and its error thrown
Await(m, op, path, path2, res) ==
    IF m.threw THEN m
    ELSE [fs |-> res.fs,
          log |-> Append(m.log, LogEntry(op, path, path2, <<>>, res.err = "")),
          threw |-> res.err # ""]

\* new Notice(...), console.warn(...), console.error(...)
Emit(m, op, path, path2, nums) ==
    IF m.threw THEN m
    ELSE [m EXCEPT !.log = Append(m.log, LogEntry(op, path, path2, nums, TRUE))]

Null == [err |-> "null", kind |-> "none", mtime |-> 0]

safeStat(f, p) ==
    LET st == FsStat(f, p) IN IF st.err = "" THEN st ELSE Null

ensureParentDirectory(m, targetPath, t) ==
    IF m.threw THEN m
    ELSE LET targetParent == Dirname(targetPath)
             targetStat == safeStat(m.fs, targetParent)
         IN  IF targetStat # Null /\ targetStat.kind = "dir" THEN m
             ELSE Await(m, "mkdirp", targetParent, <<>>,
                        FsMkdirRecursive(m.fs, targetParent, t))

\* the path it returns is Join(expandTargetPath(S, h), file)
ensureTargetPath(m, S, h, file, t) ==
    ensureParentDirectory(m, Join(expandTargetPath(S, h), file), t)

----------------------------------------------------------------------------
(* The vault adapter *)

\* file.vault.adapter.stat(path): the type, or "null"
AdapterStat(v, p) == IF p \in DOMAIN v THEN v[p].type ELSE "null"

\* file.vault.adapter.readBinary(path) succeeds on a file
CanRead(v, p) == p \in DOMAIN v /\ v[p].type = "file"

\* the position of a path in the vault's listing
RECURSIVE PathRank(_)
PathRank(p) ==
    IF Len(p) = 0 THEN 0
    ELSE PathRank(Dirname(p)) * (Len(NameOrder) + 1)
         + (CHOOSE i \in 1..Len(NameOrder) : NameOrder[i] = p[Len(p)])

RECURSIVE Sorted(_)
Sorted(S) ==
    IF S = {} THEN <<>>
    ELSE LET p == CHOOSE x \in S : \A y \in S : PathRank(x) <= PathRank(y)
         IN  <<p>> \o Sorted(S \ {p})

\* the listing with the folders in it (getAllLoadedFiles)
getFiles_All(v) == Sorted(DOMAIN v)

\* this.app.vault.getFiles(): the files, not the folders
getFiles(v) == Sorted({p \in DOMAIN v : v[p].type = "file"})

----------------------------------------------------------------------------
(* The handlers.  Each returns the finished invocation with avail, the     *)
(* answer of its availability check.                                       *)

Unavailable(f) ==
    [fs |-> f,
     log |-> <<LogEntry("console.warn", <<>>, <<>>, <<>>, TRUE)>>,
     threw |-> FALSE, avail |-> FALSE, visited |-> 0]

\* visited: how many files of the listing the pass has taken up
Done(m) ==
    [fs |-> m.fs, log |-> m.log, threw |-> m.threw, avail |-> TRUE, visited |-> 0]

\* the handler with the copy of a file inside the test of the toggle
syncFileCreate_CopyIfNotify(S, h, v, f, t, file) ==
    IF ~targetPathExists(S, h, f) THEN Unavailable(f)
    ELSE LET fileStat == AdapterStat(v, file)
             targetPath == Join(expandTargetPath(S, h), file)
             m1 == ensureTargetPath(Start(f), S, h, file, t)
         IN  IF fileStat = "folder"
             THEN Done(Await(m1, "mkdir", targetPath, <<>>,
                             FsMkdir(m1.fs, targetPath, t)))
             ELSE IF fileStat = "file"
             THEN Done(IF S.notifyCreate
                       THEN Emit(Await(m1, "writeFile", targetPath, <<>>,
                                       FsWriteFile(m1.fs, targetPath, v[file].content, t)),
                                 "Notice", file, <<>>, <<>>)
                       ELSE m1)
             ELSE Done(Emit(m1, "console.warn", file, <<>>, <<>>))

syncFileCreate(S, h, v, f, t, file) ==
    IF ~targetPathExists(S, h, f) THEN Unavailable(f)
    ELSE LET fileStat == AdapterStat(v, file)
             targetPath == Join(expandTargetPath(S, h), file)
             m1 == ensureTargetPath(Start(f), S, h, file, t)
         IN  IF fileStat = "folder"
             THEN Done(Await(m1, "mkdir", targetPath, <<>>,
                             FsMkdir(m1.fs, targetPath, t)))
             ELSE IF fileStat = "file"
             THEN LET m2 == Await(m1, "writeFile", targetPath, <<>>,
                                  FsWriteFile(m1.fs, targetPath, v[file].content, t))
                  IN  Done(IF S.notifyCreate
                           THEN Emit(m2, "Notice", file, <<>>, <<>>)
                           ELSE m2)
             ELSE Done(Emit(m1, "console.warn", file, <<>>, <<>>))

syncFileModify(S, h, v, f, t, file) ==
    IF ~targetPathExists(S, h, f) THEN Unavailable(f)
    ELSE LET targetPath == Join(expandTargetPath(S, h), file)
             m1 == ensureTargetPath(Start(f), S, h, file, t)
             \* readBinary throws when the vault holds no such file
             m2 == IF CanRead(v, file) THEN m1 ELSE [m1 EXCEPT !.threw = TRUE]
             m3 == IF m2.threw THEN m2
                   ELSE Await(m2, "writeFile", targetPath, <<>>,
                              FsWriteFile(m2.fs, targetPath, v[file].content, t))
         IN  Done(IF S.notifyModify
                  THEN Emit(m3, "Notice", file, <<>>, <<>>)
                  ELSE m3)

\* the handler with the notification ahead of the removal
syncFileDelete_NoticeFirst(S, h, v, f, t, file) ==
    IF ~targetPathExists(S, h, f) THEN Unavailable(f)
    ELSE LET targetPath == Join(expandTargetPath(S, h), file)
             m0 == IF S.notifyDelete
                   THEN Emit(Start(f), "Notice", file, <<>>, <<>>)
                   ELSE Start(f)
         IN  Done(Await(m0, "rm", targetPath, <<>>, FsRm(f, targetPath, t)))

syncFileDelete(S, h, v, f, t, file) ==
    IF ~targetPathExists(S, h, f) THEN Unavailable(f)
    ELSE LET targetPath == Join(expandTargetPath(S, h), file)
             m1 == Await(Start(f), "rm", targetPath, <<>>, FsRm(f, targetPath, t))
         IN  Done(IF S.notifyDelete
                  THEN Emit(m1, "Notice", file, <<>>, <<>>)
                  ELSE m1)

syncFileRename(S, h, v, f, t, file, oldPath) ==
    IF ~targetPathExists(S, h, f) THEN Unavailable(f)
    ELSE LET expandedTarget == expandTargetPath(S, h)
             oldTargetPath == Join(expandedTarget, oldPath)
             newTargetPath == Join(expandedTarget, file)
             m1 == ensureParentDirectory(Start(f), newTargetPath, t)
             try == Await(m1, "rename", oldTargetPath, newTargetPath,
                          FsRename(m1.fs, oldTargetPath, newTargetPath, t))
         IN  IF m1.threw THEN Done(m1)
             ELSE IF ~try.threw
             THEN Done(IF S.notifyRename
                       THEN Emit(try, "Notice", file, oldPath, <<>>)
                       ELSE try)
             ELSE \* catch
                  LET caught == [try EXCEPT !.threw = FALSE]
                  IN  Done(Emit(Emit(caught, "console.error", oldTargetPath,
                                     newTargetPath, <<>>),
                                "Notice failed", oldTargetPath, newTargetPath, <<>>))

\* the staleness test with <= for <
IsStale_OrEqual(targetStat, mtime) == targetStat.mtime <= mtime

\* the staleness test dropped: every existing target is rewritten
IsStale_Always(targetStat, mtime) == TRUE

\* targetStat.mtime.getTime() < file.stat.mtime
IsStale(targetStat, mtime) == targetStat.mtime < mtime

\* the summary with created and updated exchanged
SummaryNums_Swapped(r) == <<r.fileCount, r.updated, r.created>>

\* the numbers of the summary message
SummaryNums(r) == <<r.fileCount, r.created, r.updated>>

\* one turn of the loop of syncExistingFiles, for the file at path file
SyncOne(r, v, targetDir, t, file) ==
    IF r.threw THEN r
    ELSE LET targetPath == Join(targetDir, file)
             targetStat == safeStat(r.fs, targetPath)
             m == [fs |-> r.fs, log |-> r.log, threw |-> FALSE]
         IN  IF targetStat = Null
             THEN LET m1 == ensureParentDirectory(m, targetPath, t)
                      m2 == Await(m1, "writeFile", targetPath, <<>>,
                                  FsWriteFile(m1.fs, targetPath, v[file].content, t))
                  IN  [fs |-> m2.fs, log |-> m2.log, threw |-> m2.threw,
                       fileCount |-> r.fileCount + 1,
                       created |-> IF m2.threw THEN r.created ELSE r.created + 1,
                       updated |-> r.updated]
             ELSE IF IsStale(targetStat, v[file].mtime)
             THEN LET m2 == Await(m, "writeFile", targetPath, <<>>,
                                  FsWriteFile(m.fs, targetPath, v[file].content, t))
                  IN  [fs |-> m2.fs, log |-> m2.log, threw |-> m2.threw,
                       fileCount |-> r.fileCount + 1,
                       created |-> r.created,
                       updated |-> IF m2.threw THEN r.updated ELSE r.updated + 1]
             ELSE [r EXCEPT !.fileCount = r.fileCount + 1]

RECURSIVE SyncLoop(_, _, _, _, _)
SyncLoop(r, v, targetDir, t, files) ==
    IF files = <<>> THEN r
    ELSE SyncLoop(SyncOne(r, v, targetDir, t, Head(files)), v, targetDir, t, Tail(files))

syncExistingFiles(S, h, v, f, t) ==
    IF ~targetPathExists(S, h, f) THEN Unavailable(f)
    ELSE LET targetDir == expandTargetPath(S, h)
             r0 == [fs |-> f, log |-> <<>>, threw |-> FALSE,
                    fileCount |-> 0, created |-> 0, updated |-> 0]
             r == SyncLoop(r0, v, targetDir, t, getFiles(v))
             m == [fs |-> r.fs, log |-> r.log, threw |-> r.threw]
         IN  [Done(Emit(m, "Notice summary", <<>>, <<>>, SummaryNums(r)))
                 EXCEPT !.visited = r.fileCount]

----------------------------------------------------------------------------
(* The trees the vault and the target may hold at start-up *)

EmptyTree == [p \in {} |-> DirEntry(0)]

\* a tree stays a tree when an entry is added at the top or in a directory
Addable(tree) ==
    {p \in RelPaths \ DOMAIN tree :
        Len(p) = 1 \/ (Dirname(p) \in DOMAIN tree /\ tree[Dirname(p)].kind = "dir")}

Extensions(tree, C, T) ==
    {Overlay(tree, [q \in {p} |-> e]) :
        p \in Addable(tree),
        e \in {FileEntry(c, t) : c \in C, t \in T} \cup {DirEntry(t) : t \in T}}

\* the trees of at most k entries
RECURSIVE Trees(_, _, _)
Trees(k, C, T) ==
    IF k = 0 THEN {EmptyTree}
    ELSE LET smaller == Trees(k - 1, C, T)
         IN  smaller \cup UNION {Extensions(tree, C, T) : tree \in smaller}

\* a tree as vault items
AsVault(tree) ==
    [p \in DOMAIN tree |->
        [type |-> IF tree[p].kind = "dir" THEN "folder" ELSE "file",
         content |-> tree[p].content,
         mtime |-> tree[p].mtime]]

\* the filesystem holding only the directories above the target root
BaseFs(root) == [p \in PrefixesBelow(<<>>, Dirname(root)) |-> DirEntry(0)]

\* the filesystem with the tree under a target root that is a directory
Mounted(root, tree) ==
    Overlay(Overlay(BaseFs(root), [q \in {root} |-> DirEntry(0)]),
            [q \in {Join(root, p) : p \in DOMAIN tree} |->
                tree[SubSeq(q, Len(root) + 1, Len(q))]])

\* the target holds exactly the vault: each file with its bytes, each folder as a directory
Matches(v, f, root) ==
    /\ FIsDir(f, root)
    /\ Subtree(f, root) = {root} \cup {Join(root, p) : p \in DOMAIN v}
    /\ \A p \in DOMAIN v :
          IF v[p].type = "file"
          THEN FIsFile(f, Join(root, p)) /\ f[Join(root, p)].content = v[p].content
          ELSE FIsDir(f, Join(root, p))

----------------------------------------------------------------------------
(* The state machine *)

\* last: the invocation, the filesystem it found (pre), the time it ran at (at), the root it resolved,
\* its outcome, and what has changed around the engine since it returned (since)
NoCall ==
    [op |-> "none", file |-> <<>>, oldPath |-> <<>>, pre |-> EmptyTree, at |-> 0,
     log |-> <<>>, threw |-> FALSE, avail |-> FALSE, visited |-> 0,
     root |-> <<>>, since |-> {}]

Call(op, file, oldPath, pre, t, res) ==
    [op |-> op, file |-> file, oldPath |-> oldPath, pre |-> pre, at |-> t,
     log |-> res.log, threw |-> res.threw, avail |-> res.avail, visited |-> res.visited,
     root |-> expandTargetPath(settings, home), since |-> {}]

\* the writeFile calls of a log that succeeded
OkWrites(log) == {i \in 1..Len(log) : log[i].op = "writeFile" /\ log[i].ok}

\* prev: the invocation before the latest, with the number of files it wrote
NoPrev ==
    [op |-> "none", file |-> <<>>, oldPath |-> <<>>, at |-> 0,
     threw |-> FALSE, avail |-> FALSE, writes |-> 0, root |-> <<>>, since |-> {}]

Summary(c) ==
    [op |-> c.op, file |-> c.file, oldPath |-> c.oldPath, at |-> c.at,
     threw |-> c.threw, avail |-> c.avail, writes |-> Cardinality(OkWrites(c.log)),
     root |-> c.root, since |-> c.since]

Root == expandTargetPath(settings, home)

\* loadSettings: the defaults, nothing being stored yet
LoadedSettings == DEFAULT_SETTINGS

\* the callbacks of onload, 265-292
Subscriptions == {"create", "modify", "delete", "rename"}

\* onload has returned: the callbacks are registered and no invocation is in progress
Loaded ==
    /\ subs = Subscriptions
    /\ tasks = <<>>
    /\ turns = <<>>

Init ==
    /\ Loaded
    /\ now = 0
    /\ last = NoCall
    /\ prev = NoPrev
    /\ steps = 0
    /\ settings = LoadedSettings
    /\ \/ /\ home = HomeDir
          /\ vault \in {AsVault(tree) : tree \in Trees(MaxSeed, {1}, {0})}
          /\ \/ fs = Mounted(Root, [p \in DOMAIN vault |->
                                       IF vault[p].type = "file"
                                       THEN FileEntry(vault[p].content, 0)
                                       ELSE DirEntry(0)])
             \/ fs \in {Mounted(Root, tree) : tree \in Trees(MaxSeed, {MaxContent}, {0})}
             \/ fs = BaseFs(Root)
             \/ fs = Overlay(BaseFs(Root), [q \in {Root} |-> FileEntry(1, 0)])
       \/ /\ home = NoHome
          /\ vault = AsVault(EmptyTree)
          /\ fs = Mounted(expandTargetPath(settings, HomeDir), EmptyTree)
    /\ faithful = Matches(vault, fs, Root)

\* a handler has run on the vault v: record it
Handled(op, file, oldPath, res, v, keepsFaith) ==
    /\ steps < MaxEvents
    /\ steps' = steps + 1
    /\ vault' = v
    /\ fs' = res.fs
    /\ last' = Call(op, file, oldPath, fs, now, res)
    /\ prev' = Summary(last)
    /\ faithful' = (faithful /\ keepsFaith /\ res.avail)
    /\ UNCHANGED <<settings, home, now, stepVars>>

\* something other than a handler has happened
Environment ==
    /\ steps < MaxEvents
    /\ steps' = steps + 1
    /\ last' = NoCall
    /\ prev' = NoPrev
    /\ UNCHANGED stepVars

CanHold(v, p) ==
    /\ p \notin DOMAIN v
    /\ Len(p) = 1 \/ (Dirname(p) \in DOMAIN v /\ v[Dirname(p)].type = "folder")

\* the vault creates a file and emits "create"
VaultCreateFile(p, c) ==
    /\ CanHold(vault, p)
    /\ LET v == Overlay(vault, [q \in {p} |-> [type |-> "file", content |-> c, mtime |-> now]])
       IN  Handled("create", p, <<>>, syncFileCreate(settings, home, v, fs, now, p), v, TRUE)

\* the vault creates a folder and emits "create"
VaultCreateFolder(p) ==
    /\ CanHold(vault, p)
    /\ LET v == Overlay(vault, [q \in {p} |-> [type |-> "folder", content |-> 0, mtime |-> now]])
       IN  Handled("create", p, <<>>, syncFileCreate(settings, home, v, fs, now, p), v, TRUE)

\* the vault writes a file and emits "modify"
VaultModify(p, c) ==
    /\ p \in DOMAIN vault /\ vault[p].type = "file"
    /\ LET v == [vault EXCEPT ![p] = [type |-> "file", content |-> c, mtime |-> now]]
       IN  Handled("modify", p, <<>>, syncFileModify(settings, home, v, fs, now, p), v, TRUE)

\* the vault deletes a file or an empty folder and emits "delete"
VaultDelete(p) ==
    /\ p \in DOMAIN vault
    /\ Children(vault, p) = {}
    /\ LET v == Without(vault, {p})
       IN  Handled("delete", p, <<>>, syncFileDelete(settings, home, v, fs, now, p), v, TRUE)

\* the vault moves an item, with what is below it, and emits "rename"
VaultRename(old, new) ==
    /\ old \in DOMAIN vault
    /\ ~IsPrefix(old, new)
    /\ CanHold(vault, new)
    /\ LET moved == Subtree(vault, old)
           dest(q) == new \o SubSeq(q, Len(old) + 1, Len(q))
           put == [r \in {dest(q) : q \in moved} |->
                      vault[CHOOSE q \in moved : dest(q) = r]]
           v == Overlay(Without(vault, moved), put)
       IN  /\ DOMAIN put \subseteq RelPaths
           /\ Handled("rename", new, old,
                      syncFileRename(settings, home, v, fs, now, new, old), v, TRUE)

\* the latest event is delivered once more, the vault unchanged
Redeliver ==
    /\ last.op \in {"create", "modify", "delete", "rename"}
    /\ LET res == CASE last.op = "create" ->
                         syncFileCreate(settings, home, vault, fs, now, last.file)
                    [] last.op = "modify" ->
                         syncFileModify(settings, home, vault, fs, now, last.file)
                    [] last.op = "delete" ->
                         syncFileDelete(settings, home, vault, fs, now, last.file)
                    [] last.op = "rename" ->
                         syncFileRename(settings, home, vault, fs, now, last.file, last.oldPath)
       IN  Handled(last.op, last.file, last.oldPath, res, vault, FALSE)

\* onload runs the reconciliation pass
Reconcile ==
    Handled("sync", <<>>, <<>>, syncExistingFiles(settings, home, vault, fs, now), vault, TRUE)

\* the settings tab flips a notification toggle
SetNotify(k) ==
    /\ Environment
    /\ settings' = CASE k = "create" -> [settings EXCEPT !.notifyCreate = ~@]
                     [] k = "modify" -> [settings EXCEPT !.notifyModify = ~@]
                     [] k = "delete" -> [settings EXCEPT !.notifyDelete = ~@]
                     [] k = "rename" -> [settings EXCEPT !.notifyRename = ~@]
    /\ UNCHANGED <<vault, fs, home, now, faithful>>

\* time passes
Tick ==
    /\ now < MaxTime
    /\ now' = now + 1
    /\ UNCHANGED <<vault, fs, settings, home, last, prev, faithful, steps, stepVars>>

\* something else removes a target entry with all below it (the root: the device goes away)
ExternalRemove(p) ==
    /\ p \in Subtree(fs, Root)
    /\ Environment
    /\ fs' = Touch(Without(fs, Subtree(fs, p)), Dirname(p), now)
    /\ faithful' = FALSE
    /\ UNCHANGED <<vault, settings, home, now>>

\* something else creates a directory in the target (the root: the device comes back)
ExternalMkdir(p) ==
    /\ FsMkdir(fs, p, now).err = ""
    /\ Environment
    /\ fs' = FsMkdir(fs, p, now).fs
    /\ faithful' = FALSE
    /\ UNCHANGED <<vault, settings, home, now>>

\* something else writes a file in the target
ExternalWrite(p, c) ==
    /\ FsWriteFile(fs, p, c, now).err = ""
    /\ Environment
    /\ fs' = FsWriteFile(fs, p, c, now).fs
    /\ faithful' = FALSE
    /\ UNCHANGED <<vault, settings, home, now>>

(* The target tree at start-up is any tree, whatever the vault holds, so   *)
(* the only outside changes Next takes are those of the root itself.       *)
Next ==
    \/ \E p \in RelPaths, c \in Contents : VaultCreateFile(p, c)
    \/ \E p \in RelPaths : VaultCreateFolder(p)
    \/ \E p \in RelPaths, c \in Contents : VaultModify(p, c)
    \/ \E p \in RelPaths : VaultDelete(p)
    \/ \E old \in RelPaths, new \in RelPaths : VaultRename(old, new)
    \/ Redeliver
    \/ Reconcile
    \/ \E k \in {"create", "modify", "delete", "rename"} : SetNotify(k)
    \/ ExternalRemove(Root)
    \/ ExternalMkdir(Root)
    \/ \E c \in Contents : ExternalWrite(Root, c)

Spec == Init /\ [][Next]_vars

----------------------------------------------------------------------------
(* The reconciliation pass alone: any vault files with any modification   *)
(* times against any target tree, the pass run again and again as time     *)
(* passes.                                                                 *)

InitRecon ==
    /\ Loaded
    /\ now = 0
    /\ last = NoCall
    /\ prev = NoPrev
    /\ steps = 0
    /\ settings = LoadedSettings
    /\ home = HomeDir
    /\ vault \in {AsVault(tree) : tree \in Trees(MaxSeed, {1}, Times)}
    /\ \/ fs \in {Mounted(Root, tree) : tree \in Trees(MaxSeed, {MaxContent}, Times)}
       \/ fs = BaseFs(Root)
    /\ faithful = Matches(vault, fs, Root)

NextRecon ==
    \/ Reconcile
    \/ Tick

SpecRecon == InitRecon /\ [][NextRecon]_vars

----------------------------------------------------------------------------
(* Events served while the settings tab changes the target directory and   *)
(* the root in use goes away.  Neither is an event: the latest invocation  *)
(* stays on record, marked with what has changed since it returned.        *)

\* a target directory typed in the settings tab
OtherTargetDirectory == <<HomeToken, "other">>

TargetDirectories == {DEFAULT_SETTINGS.targetDirectory, OtherTargetDirectory}

\* the onChange of the target directory text field
SetTargetDirectory(value) ==
    /\ value # settings.targetDirectory
    /\ settings' = [settings EXCEPT !.targetDirectory = value]
    /\ last' = [last EXCEPT !.since = @ \cup {"settings"}]
    /\ UNCHANGED <<vault, fs, home, now, prev, faithful, steps, stepVars>>

\* the directory the settings name is removed, with all it holds
RootGoesAway ==
    /\ FIsDir(fs, Root) /\ Root # <<>>
    /\ fs' = Touch(Without(fs, Subtree(fs, Root)), Dirname(Root), now)
    /\ last' = [last EXCEPT !.since = @ \cup {"removed"}]
    /\ faithful' = FALSE
    /\ UNCHANGED <<vault, settings, home, now, prev, steps, stepVars>>

\* most entries of the vault, which the target directory in use mirrors, and of the other directory, at start-up
SeedRoots == 1

InitRoots ==
    /\ Loaded
    /\ now = 0
    /\ last = NoCall
    /\ prev = NoPrev
    /\ steps = 0
    /\ settings = LoadedSettings
    /\ home = HomeDir
    /\ vault \in {AsVault(tree) : tree \in Trees(SeedRoots, {1}, {0})}
    /\ LET one == [p \in DOMAIN vault |->
                      IF vault[p].type = "file"
                      THEN FileEntry(vault[p].content, 0)
                      ELSE DirEntry(0)]
       IN  \/ fs = Mounted(Root, one)
           \/ \E two \in Trees(SeedRoots, {MaxContent}, {0}) :
                 fs = Overlay(Mounted(Root, one),
                              Mounted(expandTargetPath([settings EXCEPT
                                          !.targetDirectory = OtherTargetDirectory], home), two))
    /\ faithful = Matches(vault, fs, Root)

NextRoots ==
    \/ \E p \in RelPaths, c \in Contents : VaultCreateFile(p, c)
    \/ \E p \in RelPaths : VaultCreateFolder(p)
    \/ \E p \in RelPaths, c \in Contents : VaultModify(p, c)
    \/ \E p \in RelPaths : VaultDelete(p)
    \/ \E old \in RelPaths, new \in RelPaths : VaultRename(old, new)
    \/ \E value \in TargetDirectories : SetTargetDirectory(value)
    \/ RootGoesAway

SpecRoots == InitRoots /\ [][NextRoots]_vars

----------------------------------------------------------------------------
(* The invocations step by step.  An async function runs until it awaits   *)
(* an I/O call, and resumes when the call has completed; between the two   *)
(* anything else may run.  A task is an invocation suspended at pc, the    *)
(* call it is awaiting; a step completes that call on the state as it is   *)
(* then and runs the invocation on to its next I/O call.  The arguments of *)
(* a call are those computed when it was issued.                           *)

\* an invocation begins: it runs up to the fs.stat of targetPathExists (323)
NewTask(op, file, oldPath, S, h) ==
    [op |-> op, file |-> file, oldPath |-> oldPath, pc |-> "check",
     checked |-> expandTargetPath(S, h),   \* the root whose stat is awaited
     src |-> file,                         \* the vault path of the adapter call awaited
     targetDir |-> <<>>, targetPath |-> <<>>, oldTargetPath |-> <<>>,
     fileStat |-> "null", content |-> 0, mtime |-> 0,
     files |-> <<>>, branch |-> "none",
     fileCount |-> 0, created |-> 0, updated |-> 0,
     log |-> <<>>,                         \* its I/O calls completed and notices shown
     threw |-> FALSE]

Finish(task) == [task EXCEPT !.pc = "done"]

Throw(task) == [task EXCEPT !.pc = "done", !.threw = TRUE]

\* a log entry of invocation id: the call or notice
Entry(id, task, op, path, path2, ok) ==
    [id |-> id, op |-> op, path |-> path, path2 |-> path2, ok |-> ok, nums |-> <<>>]

\* the outcome of a step: the task, the filesystem, the entries to add to the task's log
Stepped(task, f, out) == [task |-> task, fs |-> f, out |-> out]

\* the pass turns to the next file of its listing (374-379), or ends (401-403)
NextFile(id, task, f, out) ==
    IF task.files = <<>>
    THEN Stepped(Finish(task), f,
                 Append(out, [Entry(id, task, "Notice summary", <<>>, <<>>, TRUE)
                                 EXCEPT !.nums = SummaryNums(task)]))
    ELSE LET file == Head(task.files)
         IN  Stepped([task EXCEPT !.pc = "fstat",
                                  !.file = file.path, !.mtime = file.mtime,
                                  !.files = Tail(task.files),
                                  !.fileCount = task.fileCount + 1,
                                  !.targetPath = Join(task.targetDir, file.path)],
                     f, out)

\* the parent directory is there: the invocation goes on to its next call
AfterParent(task) ==
    CASE task.op = "create" ->
            IF task.fileStat = "folder" THEN [task EXCEPT !.pc = "mkdir"]
            ELSE IF task.fileStat = "file" THEN [task EXCEPT !.pc = "read", !.src = task.file]
            ELSE Finish(task)
      [] task.op = "modify" -> [task EXCEPT !.pc = "read", !.src = task.file]
      [] task.op = "rename" -> [task EXCEPT !.pc = "rename"]
      [] task.op = "sync" -> [task EXCEPT !.pc = "write"]

\* the stat of targetPathExists has completed (323-327); the handler goes on to its next await
Checked(id, task, S, h, v, f) ==
    LET targetStat == FsStat(f, task.checked)
        avail == IF targetStat.err = "" THEN targetStat.kind = "dir" ELSE FALSE
        out == <<Entry(id, task, "stat", task.checked, <<>>, avail)>>
        root == expandTargetPath(S, h)
    IN  IF ~avail THEN Stepped(Finish(task), f, out)
        ELSE CASE task.op = "create" ->
                    Stepped([task EXCEPT !.pc = "astat", !.src = task.file], f, out)
               [] task.op = "modify" ->
                    Stepped([task EXCEPT !.pc = "pstat",
                                         !.targetPath = Join(root, task.file)], f, out)
               [] task.op = "delete" ->
                    Stepped([task EXCEPT !.pc = "rm",
                                         !.targetPath = Join(root, task.file)], f, out)
               [] task.op = "rename" ->
                    Stepped([task EXCEPT !.pc = "pstat",
                                         !.oldTargetPath = Join(root, task.oldPath),
                                         !.targetPath = Join(root, task.file)], f, out)
               [] task.op = "sync" ->
                    NextFile(id, [task EXCEPT !.targetDir = root,
                                              !.files = [i \in 1..Len(getFiles(v)) |->
                                                  [path |-> getFiles(v)[i],
                                                   mtime |-> v[getFiles(v)[i]].mtime]]],
                             f, out)

\* the notification setting of a handler
Toggle(S, op) ==
    CASE op = "create" -> S.notifyCreate
      [] op = "modify" -> S.notifyModify
      [] op = "delete" -> S.notifyDelete
      [] op = "rename" -> S.notifyRename

\* the notice that ends a handler, when its toggle is on
Noticed(id, task, S, out) ==
    IF Toggle(S, task.op)
    THEN Append(out, Entry(id, task, "Notice", task.file, task.oldPath, TRUE))
    ELSE out

\* the call the task awaits completes, and the invocation runs to its next await or to its end
Resume(id, task, S, h, v, f, t) ==
    CASE task.pc = "check" -> Checked(id, task, S, h, v, f)
      [] task.pc = "astat" ->
            \* 418 has completed; 421 computes the target path and stats its parent
            Stepped([task EXCEPT !.fileStat = AdapterStat(v, task.src),
                                 !.targetPath = Join(expandTargetPath(S, h), task.file),
                                 !.pc = "pstat"],
                    f, <<Entry(id, task, "adapter.stat", task.src, <<>>, TRUE)>>)
      [] task.pc = "pstat" ->
            \* 336-339
            LET targetParent == Dirname(task.targetPath)
                targetStat == safeStat(f, targetParent)
                out == <<Entry(id, task, "stat", targetParent, <<>>, targetStat # Null)>>
            IN  IF targetStat # Null /\ targetStat.kind = "dir"
                THEN Stepped(AfterParent(task), f, out)
                ELSE Stepped([task EXCEPT !.pc = "mkdirp"], f, out)
      [] task.pc = "mkdirp" ->
            \* 341
            LET targetParent == Dirname(task.targetPath)
                res == FsMkdirRecursive(f, targetParent, t)
                out == <<Entry(id, task, "mkdirp", targetParent, <<>>, res.err = "")>>
            IN  IF res.err # "" THEN Stepped(Throw(task), f, out)
                ELSE Stepped(AfterParent(task), res.fs, out)
      [] task.pc = "mkdir" ->
            \* 425
            LET res == FsMkdir(f, task.targetPath, t)
                out == <<Entry(id, task, "mkdir", task.targetPath, <<>>, res.err = "")>>
            IN  Stepped(IF res.err # "" THEN Throw(task) ELSE Finish(task), res.fs, out)
      [] task.pc = "read" ->
            \* readBinary: 428, 455, 384, 393
            LET out == <<Entry(id, task, "readBinary", task.src, <<>>, CanRead(v, task.src))>>
            IN  IF ~CanRead(v, task.src) THEN Stepped(Throw(task), f, out)
                ELSE LET got == [task EXCEPT !.content = v[task.src].content]
                     IN  IF task.op = "sync" /\ task.branch = "created"
                         THEN Stepped([got EXCEPT !.pc = "pstat"], f, out)
                         ELSE Stepped([got EXCEPT !.pc = "write"], f, out)
      [] task.pc = "write" ->
            \* writeFile: 430, 458, 387, 395
            LET res == FsWriteFile(f, task.targetPath, task.content, t)
                out == <<Entry(id, task, "writeFile", task.targetPath, <<>>, res.err = "")>>
            IN  IF res.err # "" THEN Stepped(Throw(task), f, out)
                ELSE IF task.op = "sync"
                THEN NextFile(id,
                              IF task.branch = "created"
                              THEN [task EXCEPT !.created = task.created + 1]
                              ELSE [task EXCEPT !.updated = task.updated + 1],
                              res.fs, out)
                ELSE Stepped(Finish(task), res.fs, Noticed(id, task, S, out))
      [] task.pc = "rm" ->
            \* 478-482
            LET res == FsRm(f, task.targetPath, t)
                out == <<Entry(id, task, "rm", task.targetPath, <<>>, res.err = "")>>
            IN  IF res.err # "" THEN Stepped(Throw(task), f, out)
                ELSE Stepped(Finish(task), res.fs, Noticed(id, task, S, out))
      [] task.pc = "rename" ->
            \* 500-511
            LET res == FsRename(f, task.oldTargetPath, task.targetPath, t)
                out == <<Entry(id, task, "rename", task.oldTargetPath, task.targetPath,
                               res.err = "")>>
            IN  IF res.err = ""
                THEN Stepped(Finish(task), res.fs, Noticed(id, task, S, out))
                ELSE Stepped(Finish(task), f,
                             Append(out, Entry(id, task, "Notice failed",
                                               task.oldTargetPath, task.targetPath, TRUE)))
      [] task.pc = "fstat" ->
            \* 379-397
            LET targetStat == safeStat(f, task.targetPath)
                out == <<Entry(id, task, "stat", task.targetPath, <<>>, targetStat # Null)>>
            IN  IF targetStat = Null
                THEN Stepped([task EXCEPT !.pc = "read", !.src = task.file,
                                          !.branch = "created"], f, out)
                ELSE IF IsStale(targetStat, task.mtime)
                THEN Stepped([task EXCEPT !.pc = "read", !.src = task.file,
                                          !.branch = "updated"], f, out)
                ELSE NextFile(id, task, f, out)

\* most invocations begun in a behaviour, the pass of onload included
MaxTasks == 2

Suspended(task) == task.pc # "done"

\* where a rename of old to new takes the vault path p
Renamed(p, old, new) ==
    IF IsPrefix(old, p) THEN new \o SubSeq(p, Len(old) + 1, Len(p)) ELSE p

(* The items handed to the callbacks and listed by getFiles are the        *)
(* vault's own objects: a rename changes the path, and a write the mtime,  *)
(* that a suspended invocation will read from them.                        *)
LiveRename(task, v, old, new) ==
    IF ~Suspended(task) THEN task
    ELSE [task EXCEPT
            !.file = IF @ \in DOMAIN v THEN Renamed(@, old, new) ELSE @,
            !.files = [i \in 1..Len(@) |->
                          IF @[i].path \in DOMAIN v
                          THEN [@[i] EXCEPT !.path = Renamed(@, old, new)]
                          ELSE @[i]]]

LiveModify(task, p, t) ==
    IF ~Suspended(task) THEN task
    ELSE [task EXCEPT
            !.mtime = IF task.op = "sync" /\ task.file = p THEN t ELSE @,
            !.files = [i \in 1..Len(@) |->
                          IF @[i].path = p THEN [@[i] EXCEPT !.mtime = t] ELSE @[i]]]

\* the turn of invocation id
Turn(id) == IF turns # <<>> /\ turns[Len(turns)] = id THEN turns ELSE Append(turns, id)

\* the vault has changed to v and emits an event: the callback registered for it, if any, begins
Emitted(op, file, oldPath, v, live) ==
    /\ steps < MaxEvents
    /\ steps' = steps + 1
    /\ vault' = v
    /\ IF op \in subs
       THEN /\ Len(tasks) < MaxTasks
            /\ tasks' = Append(live, NewTask(op, file, oldPath, settings, home))
            /\ turns' = turns
       ELSE /\ tasks' = live
            /\ turns' = Turn(0)
    /\ UNCHANGED <<fs, settings, home, now, last, prev, faithful, subs>>

StepCreateFile(p, c) ==
    /\ CanHold(vault, p)
    /\ Emitted("create", p, <<>>,
               Overlay(vault, [q \in {p} |-> [type |-> "file", content |-> c, mtime |-> now]]),
               tasks)

StepCreateFolder(p) ==
    /\ CanHold(vault, p)
    /\ Emitted("create", p, <<>>,
               Overlay(vault, [q \in {p} |-> [type |-> "folder", content |-> 0, mtime |-> now]]),
               tasks)

StepModify(p, c) ==
    /\ p \in DOMAIN vault /\ vault[p].type = "file"
    /\ Emitted("modify", p, <<>>,
               [vault EXCEPT ![p] = [type |-> "file", content |-> c, mtime |-> now]],
               [i \in 1..Len(tasks) |-> LiveModify(tasks[i], p, now)])

StepDelete(p) ==
    /\ p \in DOMAIN vault
    /\ Children(vault, p) = {}
    /\ Emitted("delete", p, <<>>, Without(vault, {p}), tasks)

StepRename(old, new) ==
    /\ old \in DOMAIN vault
    /\ ~IsPrefix(old, new)
    /\ CanHold(vault, new)
    /\ LET moved == Subtree(vault, old)
           put == [r \in {Renamed(q, old, new) : q \in moved} |->
                      vault[CHOOSE q \in moved : Renamed(q, old, new) = r]]
       IN  /\ DOMAIN put \subseteq RelPaths
           /\ Emitted("rename", new, old, Overlay(Without(vault, moved), put),
                      [i \in 1..Len(tasks) |-> LiveRename(tasks[i], vault, old, new)])

\* loadSettings has completed: onload registers its callbacks, then begins the pass (263-294)
Onload ==
    /\ subs = {}
    /\ subs' = Subscriptions
    /\ tasks' = Append(tasks, NewTask("sync", <<>>, <<>>, settings, home))
    /\ UNCHANGED <<vault, fs, settings, home, now, last, prev, faithful, steps, turns>>

\* the I/O call that invocation i awaits completes
Step(i) ==
    /\ Suspended(tasks[i])
    /\ LET r == Resume(i, tasks[i], settings, home, vault, fs, now)
       IN  /\ tasks' = [tasks EXCEPT ![i] = [r.task EXCEPT !.log = tasks[i].log \o r.out]]
           /\ fs' = r.fs
           /\ turns' = Turn(i)
    /\ UNCHANGED <<vault, settings, home, now, last, prev, faithful, steps, subs>>

\* some invocation is suspended: the settings tab and the world outside act meanwhile, the tab once
InProgress == \E i \in 1..Len(tasks) : Suspended(tasks[i])

\* onload is awaiting loadSettings (260), or has returned; n events have gone by
InitStepsAt(n) ==
    /\ subs \in {{}, Subscriptions}
    /\ tasks = <<>>
    /\ turns = <<>>
    /\ now = 0
    /\ last = NoCall
    /\ prev = NoPrev
    /\ steps = n
    /\ settings = LoadedSettings
    /\ home = HomeDir
    /\ vault \in {AsVault(tree) : tree \in Trees(SeedRoots, {1}, {0})}
    /\ LET mirror == [p \in DOMAIN vault |->
                         IF vault[p].type = "file"
                         THEN FileEntry(vault[p].content, 0)
                         ELSE DirEntry(0)]
       IN  \/ fs = Mounted(Root, mirror)
           \/ fs = Mounted(Root, EmptyTree)
    /\ faithful = FALSE

InitSteps == InitStepsAt(0)

NextSteps ==
    \/ Onload
    \/ \E i \in 1..Len(tasks) : Step(i)
    \/ \E p \in RelPaths, c \in Contents : StepCreateFile(p, c)
    \/ \E p \in RelPaths : StepCreateFolder(p)
    \/ \E p \in RelPaths, c \in Contents : StepModify(p, c)
    \/ \E p \in RelPaths : StepDelete(p)
    \/ \E old \in RelPaths, new \in RelPaths : StepRename(old, new)

SpecSteps == InitSteps /\ [][NextSteps]_vars

(* One event, or the pass of onload, with the settings tab and the world   *)
(* outside acting while the invocation is suspended.                       *)
InitUnsettled == InitStepsAt(MaxEvents - 1)

NextUnsettled ==
    \/ NextSteps
    \/ \E value \in TargetDirectories :
          InProgress /\ "settings" \notin last.since /\ SetTargetDirectory(value)
    \/ InProgress /\ RootGoesAway

SpecUnsettled == InitUnsettled /\ [][NextUnsettled]_vars

----------------------------------------------------------------------------
(* What an invocation did, read off its log *)

\* mkdirp: the recursive mkdir of ensureParentDirectory
WriteOps == {"mkdir", "mkdirp", "writeFile", "rm", "rename"}

NoticeOps == {"Notice", "Notice failed", "Notice summary"}

Entries(log, ops) == {i \in 1..Len(log) : log[i].op \in ops}

Handlers == {"create", "modify", "delete", "rename"}

----------------------------------------------------------------------------
(* C1: when the target root is absent, or is not a directory, a handler    *)
(* or the reconciliation pass that runs issues no mkdir, writeFile, rm or  *)
(* rename, emits no notification, returns without raising and leaves the   *)
(* filesystem as it was.                                                   *)
C1_UnavailableIsNoOp ==
    (last.op # "none" /\ ~FIsDir(last.pre, Root)) =>
        /\ Entries(last.log, WriteOps) = {}
        /\ Entries(last.log, NoticeOps) = {}
        /\ ~last.threw
        /\ fs = last.pre

\* a Deleted handler has run against a root that exists but is a file
C1_Witness ==
    /\ last.op = "delete"
    /\ FIsFile(last.pre, Root)
    /\ vault # EmptyTree

(* C2: from a target that matches the vault, with the root available all   *)
(* along and nothing else touching the target, after every handler of a    *)
(* serially delivered run of events the target matches the vault.          *)
C2_TargetMatchesVault ==
    faithful => Matches(vault, fs, Root)

----------------------------------------------------------------------------
(* The reconciliation pass, read off its log *)

VaultFiles == {p \in DOMAIN vault : vault[p].type = "file"}

\* the latest invocation wrote the target file of the vault file p
Written(p) ==
    \E i \in OkWrites(last.log) : last.log[i].path = Join(Root, p)

\* the vault files the latest pass has taken up, the one it failed on included
Visited == {getFiles(vault)[i] : i \in 1..last.visited}

\* the summary notices of the latest pass
Summaries == Entries(last.log, {"Notice summary"})

TwoPasses ==
    /\ last.op = "sync" /\ prev.op = "sync"
    /\ prev.avail /\ FIsDir(last.pre, Root)

(* C3 as stated: for any vault files with any modification times and any   *)
(* target, root available, the second of two passes in succession writes   *)
(* no file.                                                                *)
C3_SecondPassWritesNothing ==
    TwoPasses => OkWrites(last.log) = {}

(* C3, amended: the same, provided no vault file's modification time is    *)
(* later than the time on the target's clock at the first pass.            *)
C3_SecondPassWritesNothingUnlessFuture ==
    (TwoPasses /\ \A p \in VaultFiles : vault[p].mtime <= prev.at) =>
        OkWrites(last.log) = {}

\* two passes, the first of which wrote a file, none dated in the future
C3_Witness ==
    /\ TwoPasses
    /\ \A p \in VaultFiles : vault[p].mtime <= prev.at
    /\ prev.writes > 0
    /\ \E p \in VaultFiles : vault[p].mtime = prev.at /\ prev.at > 0

(* C4 as stated: in a pass, every vault file whose target file exists is   *)
(* overwritten, and counted as updated, exactly when target.mtime <        *)
(* source.mtime.                                                           *)
C4_OverwrittenIffStale ==
    (last.op = "sync" /\ FIsDir(last.pre, Root)) =>
        /\ \A p \in VaultFiles :
              FIsFile(last.pre, Join(Root, p)) =>
                  (Written(p) <=> last.pre[Join(Root, p)].mtime < vault[p].mtime)
        /\ \A i \in Summaries :
              last.log[i].nums[3] =
                  Cardinality({p \in VaultFiles :
                                  FExists(last.pre, Join(Root, p)) /\ Written(p)})

(* C4, amended: the same of every vault file the pass reaches; a failed    *)
(* filesystem call ends the pass, and the files listed after it are left   *)
(* as they were, stale or not.                                             *)
C4_VisitedOverwrittenIffStale ==
    (last.op = "sync" /\ FIsDir(last.pre, Root)) =>
        /\ \A p \in Visited :
              FIsFile(last.pre, Join(Root, p)) =>
                  (Written(p) <=> last.pre[Join(Root, p)].mtime < vault[p].mtime)
        /\ \A p \in VaultFiles \ Visited : ~Written(p)
        /\ \A i \in Summaries :
              last.log[i].nums[3] =
                  Cardinality({p \in VaultFiles :
                                  FExists(last.pre, Join(Root, p)) /\ Written(p)})

\* a pass that overwrote a stale target file and left alone one of the same age as its source
C4_Witness ==
    /\ last.op = "sync" /\ FIsDir(last.pre, Root)
    /\ \E p \in Visited, q \in Visited :
          /\ FIsFile(last.pre, Join(Root, p)) /\ FIsFile(last.pre, Join(Root, q))
          /\ last.pre[Join(Root, p)].mtime < vault[p].mtime /\ Written(p)
          /\ last.pre[Join(Root, q)].mtime = vault[q].mtime /\ ~Written(q)

\* the vault files the latest pass wrote, their target absent before, or present
CreatedByPass == {p \in VaultFiles : ~FExists(last.pre, Join(Root, p)) /\ Written(p)}

UpdatedByPass == {p \in VaultFiles : FExists(last.pre, Join(Root, p)) /\ Written(p)}

\* the latest pass ended with the one notification, the summary of what it did
OneSummaryLast ==
    /\ Entries(last.log, NoticeOps) = {Len(last.log)}
    /\ last.log # <<>>
    /\ last.log[Len(last.log)].op = "Notice summary"
    /\ last.log[Len(last.log)].nums =
          <<Cardinality(VaultFiles), Cardinality(CreatedByPass), Cardinality(UpdatedByPass)>>
    /\ Cardinality(CreatedByPass) + Cardinality(UpdatedByPass)
          = Cardinality(OkWrites(last.log))
    /\ Cardinality(OkWrites(last.log)) <= Cardinality(VaultFiles)

(* C9 as stated: a pass with the root available emits exactly one          *)
(* notification, after the whole listing, carrying the number of files,    *)
(* of files created and of files updated, created + updated being the      *)
(* number of writes and at most the number of files; a pass with the root  *)
(* unavailable emits none.                                                 *)
C9_OneSummary ==
    last.op = "sync" =>
        IF FIsDir(last.pre, Root) THEN OneSummaryLast
        ELSE Entries(last.log, NoticeOps) = {}

(* C9, amended: that holds of a pass none of whose filesystem calls fails; *)
(* one that fails ends the pass there, and then no notification is         *)
(* emitted at all.                                                         *)
C9_OneSummaryUnlessFailed ==
    last.op = "sync" =>
        IF FIsDir(last.pre, Root) /\ ~last.threw THEN OneSummaryLast
        ELSE Entries(last.log, NoticeOps) = {}

\* a pass that created one file, updated another and reported both
C9_Witness ==
    /\ last.op = "sync" /\ FIsDir(last.pre, Root) /\ ~last.threw
    /\ CreatedByPass # {} /\ UpdatedByPass # {}
    /\ Summaries # {}

----------------------------------------------------------------------------
(* The event handlers, read off the log of the latest invocation *)

TargetOf(p) == Join(Root, p)

\* the call that carries out each event: for "create", that of a file
MainOp(op) ==
    CASE op = "create" -> "writeFile"
      [] op = "modify" -> "writeFile"
      [] op = "delete" -> "rm"
      [] op = "rename" -> "rename"
      [] OTHER -> "none"

\* the main call of the latest invocation was made and succeeded
OpOk == \E i \in 1..Len(last.log) : last.log[i].op = MainOp(last.op) /\ last.log[i].ok

\* some filesystem call of the latest invocation failed
SomeCallFailed == \E i \in Entries(last.log, WriteOps) : ~last.log[i].ok

RootAvailable == FIsDir(last.pre, Root)

(* C5: a Renamed event handled with the root available never throws out   *)
(* of the handler; when oldTargetPath does not exist it logs an error,     *)
(* emits the failure notification whatever the rename toggle, emits no     *)
(* success notification and returns normally.                              *)
C5_RenameNeverThrows ==
    (last.op = "rename" /\ RootAvailable) =>
        /\ ~last.threw
        /\ ~FExists(last.pre, TargetOf(last.oldPath)) =>
              /\ Entries(last.log, {"console.error"}) # {}
              /\ Entries(last.log, {"Notice failed"}) # {}
              /\ Entries(last.log, {"Notice"}) = {}

\* the outcome of the handler of an event on the filesystem the latest invocation found
HandlerResult(S, op, file, oldPath) ==
    CASE op = "create" -> syncFileCreate(S, home, vault, last.pre, last.at, file)
      [] op = "modify" -> syncFileModify(S, home, vault, last.pre, last.at, file)
      [] op = "delete" -> syncFileDelete(S, home, vault, last.pre, last.at, file)
      [] op = "rename" -> syncFileRename(S, home, vault, last.pre, last.at, file, oldPath)

(* C6: a handler call is a unit of failure of its own.  When a call of a   *)
(* Created, Modified or Deleted handler fails the error leaves that        *)
(* handler and no notification is emitted for the event (Deleted for a     *)
(* path absent from the target fails so) and the target is left as it was  *)
(* found, as if the event had not been delivered; a failed                 *)
(* fs.rename does not leave the Renamed handler; and the event after a     *)
(* failed one has the effect its handler has on the target as it finds it. *)
C6_FailureIsContained ==
    /\ (last.op \in {"create", "modify", "delete"} /\ SomeCallFailed) => last.threw
    /\ (last.op \in {"create", "modify", "delete"} /\ last.threw) =>
          Entries(last.log, NoticeOps) = {} /\ fs = last.pre
    /\ (last.op = "delete" /\ RootAvailable /\ ~FExists(last.pre, TargetOf(last.file))) =>
          last.threw /\ fs = last.pre
    /\ (last.op = "rename" /\ \E i \in Entries(last.log, {"rename"}) : ~last.log[i].ok) =>
          ~last.threw
    /\ (last.op \in Handlers /\ prev.threw) =>
          LET res == HandlerResult(settings, last.op, last.file, last.oldPath)
          IN  fs = res.fs /\ last.log = res.log /\ last.threw = res.threw

\* a Deleted handler failed, and the event after it was carried out
C6_Witness ==
    /\ prev.op = "delete" /\ prev.threw /\ prev.avail
    /\ last.op \in Handlers /\ OpOk /\ ~last.threw
    /\ fs # last.pre

\* the same Created(file) event applied twice in a row, the vault file unchanged, the root available
CreatedTwice ==
    /\ last.op = "create" /\ prev.op = "create" /\ prev.file = last.file
    /\ CanRead(vault, last.file)
    /\ prev.avail /\ RootAvailable

\* the second application raised nothing and left the bytes the first had left, those of the source
SecondLeftTheSame ==
    /\ ~last.threw
    /\ FIsFile(last.pre, TargetOf(last.file)) /\ FIsFile(fs, TargetOf(last.file))
    /\ fs[TargetOf(last.file)].content = last.pre[TargetOf(last.file)].content
    /\ fs[TargetOf(last.file)].content = vault[last.file].content

(* C7 as stated: the same Created(file) event applied twice in a row,      *)
(* source unchanged and root available, raises no error the second time    *)
(* and leaves the target file with the bytes it had after the first, those *)
(* of the source.                                                          *)
C7_CreateTwice ==
    CreatedTwice => SecondLeftTheSame

(* C7, amended: the same, provided the first application returned without  *)
(* error. When the first application failed the second fails too and       *)
(* leaves the target as it found it.                                       *)
C7_CreateTwiceAfterSuccess ==
    /\ (CreatedTwice /\ ~prev.threw) => SecondLeftTheSame
    /\ (CreatedTwice /\ prev.threw) => last.threw /\ fs = last.pre

\* a Created(file) that succeeded and was applied again
C7_Witness ==
    /\ CreatedTwice /\ ~prev.threw
    /\ OpOk

WithToggle(S, op, b) ==
    CASE op = "create" -> [S EXCEPT !.notifyCreate = b]
      [] op = "modify" -> [S EXCEPT !.notifyModify = b]
      [] op = "delete" -> [S EXCEPT !.notifyDelete = b]
      [] op = "rename" -> [S EXCEPT !.notifyRename = b]

NotNotice(e) == e.op \notin NoticeOps

(* C8: a notification toggle changes the notifications only.  For a        *)
(* Created, Modified, Deleted or Renamed event the filesystem calls and    *)
(* their effect are the same with the toggle on and with it off, and the   *)
(* success notification is emitted exactly when the toggle is on and the   *)
(* operation succeeded, last of all, after the operation.                  *)
C8_TogglesGateNoticesOnly ==
    last.op \in Handlers =>
        LET on  == HandlerResult(WithToggle(settings, last.op, TRUE),
                                 last.op, last.file, last.oldPath)
            off == HandlerResult(WithToggle(settings, last.op, FALSE),
                                 last.op, last.file, last.oldPath)
        IN  /\ on.fs = off.fs /\ fs = on.fs
            /\ on.threw = off.threw /\ last.threw = on.threw
            /\ SelectSeq(on.log, NotNotice) = SelectSeq(off.log, NotNotice)
            /\ SelectSeq(last.log, NotNotice) = SelectSeq(on.log, NotNotice)
            /\ Entries(last.log, {"Notice"}) # {} <=> (Toggle(settings, last.op) /\ OpOk)
            /\ \A i \in Entries(last.log, {"Notice"}) :
                  /\ i = Len(last.log)
                  /\ \E j \in 1..(i - 1) :
                        last.log[j].op = MainOp(last.op) /\ last.log[j].ok

\* with notifyCreate off, a Created(file) copied the file and notified nobody
C8_Witness ==
    /\ last.op = "create" /\ ~settings.notifyCreate
    /\ OpOk /\ Entries(last.log, NoticeOps) = {}
    /\ FIsFile(fs, TargetOf(last.file))
    /\ fs[TargetOf(last.file)].content = vault[last.file].content
    /\ ~FExists(last.pre, TargetOf(last.file))

OldTarget == TargetOf(last.oldPath)

NewTarget == TargetOf(last.file)

\* where the rename takes the entry q at or below oldTargetPath
Moved(q) == NewTarget \o SubSeq(q, Len(OldTarget) + 1, Len(q))

\* the ancestors of newTargetPath below the root
NewAncestors == PrefixesBelow(Root, Dirname(NewTarget))

\* the entry at q is the same in f and g: there or not, its kind, its bytes, a file's mtime
SameEntry(f, g, q) ==
    /\ q \in DOMAIN f <=> q \in DOMAIN g
    /\ q \in DOMAIN f =>
          /\ f[q].kind = g[q].kind /\ f[q].content = g[q].content
          /\ f[q].kind = "file" => f[q].mtime = g[q].mtime

\* the entry of oldTargetPath, with what is below it, is now at newTargetPath and nowhere else
RenameCarriedOut ==
    /\ Subtree(fs, NewTarget) = {Moved(q) : q \in Subtree(last.pre, OldTarget)}
    /\ \A q \in Subtree(last.pre, OldTarget) :
          /\ fs[Moved(q)].kind = last.pre[q].kind
          /\ fs[Moved(q)].content = last.pre[q].content
    /\ Subtree(fs, OldTarget) = {}
    /\ \A a \in NewAncestors : FIsDir(fs, a)
    /\ \A q \in (DOMAIN fs \cup DOMAIN last.pre) :
          (~IsPrefix(OldTarget, q) /\ ~IsPrefix(NewTarget, q)
              /\ (q \in NewAncestors => q \in DOMAIN last.pre))
          => SameEntry(last.pre, fs, q)

RenameOfExisting ==
    /\ last.op = "rename" /\ RootAvailable
    /\ FExists(last.pre, OldTarget)

\* newTargetPath can take the entry: its parent can be made, and nothing that a move cannot replace is there
NewTargetFree ==
    /\ FIsDir(last.pre, NearestExisting(last.pre, Dirname(NewTarget)))
    /\ ~IsPrefix(OldTarget, NewTarget)
    /\ \/ ~FExists(last.pre, NewTarget)
       \/ FIsFile(last.pre, OldTarget) /\ FIsFile(last.pre, NewTarget)
       \/ /\ FIsDir(last.pre, OldTarget) /\ FIsDir(last.pre, NewTarget)
          /\ Children(last.pre, NewTarget) = {}

(* C10 as stated: a Renamed event whose oldTargetPath exists, handled with *)
(* the root available, leaves at newTargetPath the entry that was at       *)
(* oldTargetPath (a directory with what it held), nothing at               *)
(* oldTargetPath, the missing ancestors of newTargetPath created, and      *)
(* every other target entry as it was.                                     *)
C10_RenameMoves ==
    RenameOfExisting => RenameCarriedOut

(* C10, amended: the same, provided newTargetPath can take the entry: no   *)
(* ancestor of it is a non-directory, and what is there, if anything, is   *)
(* a file when a file is moved, an empty directory when a directory is.    *)
(* Otherwise the move fails and the entry stays at oldTargetPath.          *)
C10_RenameMovesWhenFree ==
    /\ (RenameOfExisting /\ NewTargetFree) => RenameCarriedOut
    /\ (RenameOfExisting /\ ~NewTargetFree) =>
          SameEntry(last.pre, fs, OldTarget) /\ ~OpOk

\* a file was moved into a directory that the handler had to create
C10_Witness ==
    /\ RenameOfExisting /\ NewTargetFree
    /\ FIsFile(last.pre, OldTarget)
    /\ ~FExists(last.pre, Dirname(NewTarget))
    /\ Entries(last.log, {"mkdirp"}) # {}
    /\ OpOk

----------------------------------------------------------------------------
(* Created(file) and Modified(file) below directories the target lacks *)

\* the ancestors of TargetPath below the root
Ancestors == PrefixesBelow(Root, Dirname(TargetOf(last.file)))

\* a Created or Modified event of a vault file, root available, some ancestor of TargetPath not in the target
CopyBelowMissing ==
    /\ last.op \in {"create", "modify"}
    /\ CanRead(vault, last.file)
    /\ RootAvailable
    /\ \E a \in Ancestors : ~FExists(last.pre, a)

\* the ancestors are directories, TargetPath holds the source bytes, nothing else has changed
CopiedBelow ==
    /\ ~last.threw
    /\ \A a \in Ancestors : FIsDir(fs, a)
    /\ FIsFile(fs, TargetOf(last.file))
    /\ fs[TargetOf(last.file)].content = vault[last.file].content
    /\ \A q \in (DOMAIN fs \cup DOMAIN last.pre) :
          (q # TargetOf(last.file) /\ (q \in Ancestors => q \in DOMAIN last.pre))
          => SameEntry(last.pre, fs, q)

(* C11 as stated: a Created(file) or Modified(file) event handled with the *)
(* root available, when part or all of the chain of directories above      *)
(* TargetPath is missing in the target, ends with every ancestor of        *)
(* TargetPath below the root a directory, TargetPath holding the source    *)
(* file's bytes, and every other target entry unchanged.                   *)
C11_CopyCreatesAncestors ==
    CopyBelowMissing => CopiedBelow

(* C11, amended: the same, provided the deepest ancestor of TargetPath     *)
(* that exists in the target is a directory.  When it is a regular file    *)
(* the recursive mkdir fails, the handler throws and the target is left    *)
(* as it was.                                                              *)
C11_CopyCreatesAncestorsUnderDirectory ==
    /\ (CopyBelowMissing
          /\ FIsDir(last.pre, NearestExisting(last.pre, Dirname(TargetOf(last.file)))))
       => CopiedBelow
    /\ (CopyBelowMissing
          /\ ~FIsDir(last.pre, NearestExisting(last.pre, Dirname(TargetOf(last.file)))))
       => last.threw /\ fs = last.pre

\* a Created event copied a file below two directories, one of which the handler made
C11_Witness ==
    /\ CopyBelowMissing /\ last.op = "create"
    /\ Len(last.file) = 3
    /\ FIsDir(last.pre, Join(Root, SubSeq(last.file, 1, 1)))
    /\ ~FExists(last.pre, Join(Root, SubSeq(last.file, 1, 2)))
    /\ OpOk

----------------------------------------------------------------------------
(* Created(directory) *)

CreatedFolder ==
    /\ last.op = "create"
    /\ AdapterStat(vault, last.file) = "folder"
    /\ RootAvailable

(* C14: a Created(directory) event handled with the root available makes   *)
(* an empty directory at TargetPath, its parent materialized first; it     *)
(* fails exactly when a non-directory is already at TargetPath, the        *)
(* failure leaving the handler; and it emits no notification.              *)
C14_CreateFolderFailsOnlyOnCollision ==
    CreatedFolder =>
        /\ last.threw <=>
              (FExists(last.pre, TargetOf(last.file)) /\ ~FIsDir(last.pre, TargetOf(last.file)))
        /\ ~last.threw =>
              /\ FIsDir(fs, TargetOf(last.file))
              /\ FIsDir(fs, Dirname(TargetOf(last.file)))
              /\ ~FExists(last.pre, TargetOf(last.file)) => Children(fs, TargetOf(last.file)) = {}
        /\ Entries(last.log, NoticeOps) = {}

----------------------------------------------------------------------------
(* Deleted(item) *)

(* C15: a Deleted event handled with the root available removes the entry  *)
(* at TargetPath, a file or a directory, empty or not, so that once the    *)
(* handler has returned normally nothing is at TargetPath; it creates no   *)
(* directory and no file, and leaves every entry outside TargetPath as it  *)
(* was.                                                                    *)
C15_DeleteRemovesEntry ==
    (last.op = "delete" /\ RootAvailable) =>
        /\ FExists(last.pre, TargetOf(last.file)) =>
              ~last.threw /\ Subtree(fs, TargetOf(last.file)) = {}
        /\ ~last.threw => ~FExists(fs, TargetOf(last.file))
        /\ Entries(last.log, {"mkdir", "mkdirp", "writeFile"}) = {}
        /\ DOMAIN fs \subseteq DOMAIN last.pre
        /\ \A q \in (DOMAIN fs \cup DOMAIN last.pre) :
              ~IsPrefix(TargetOf(last.file), q) => SameEntry(last.pre, fs, q)

----------------------------------------------------------------------------
(* ensureParentDirectory, as the latest handler called it *)

\* the handlers that materialize the parent of TargetOf(last.file)
Materializes ==
    /\ last.op \in {"create", "modify", "rename"}
    /\ RootAvailable

ParentOfTarget == Dirname(TargetOf(last.file))

EnsuredOnce == ensureParentDirectory(Start(last.pre), TargetOf(last.file), last.at)

EnsuredTwice == ensureParentDirectory(Start(EnsuredOnce.fs), TargetOf(last.file), last.at)

(* C16: ensureParentDirectory, called with the root available, returns     *)
(* normally with the parent of targetPath a directory when the parent is   *)
(* a directory already (nothing changes), when it is missing (it and the   *)
(* missing ancestors are created) and when it exists and is not a          *)
(* directory; it never fails with EEXIST; and a second call in a row       *)
(* leaves what the first left.                                             *)
C16_EnsureParentSucceeds ==
    Materializes =>
        /\ ~EnsuredOnce.threw
        /\ FIsDir(EnsuredOnce.fs, ParentOfTarget)
        /\ FIsDir(last.pre, ParentOfTarget) =>
              EnsuredOnce.fs = last.pre /\ EnsuredOnce.log = <<>>
        /\ FsMkdirRecursive(last.pre, ParentOfTarget, last.at).err # "EEXIST"
        /\ ~EnsuredTwice.threw /\ EnsuredTwice.fs = EnsuredOnce.fs

----------------------------------------------------------------------------
(* What the reconciliation pass leaves alone *)

VaultFolders == {p \in DOMAIN vault : vault[p].type = "folder"}

\* the pass removed and renamed nothing, and left every entry that is not the target of a listed file
PassKeepsTheRest ==
    /\ Entries(last.log, {"rm", "rename", "mkdir"}) = {}
    /\ DOMAIN last.pre \subseteq DOMAIN fs
    /\ \A q \in DOMAIN last.pre :
          q \notin {TargetOf(p) : p \in VaultFiles} =>
              /\ fs[q].kind = last.pre[q].kind
              /\ fs[q].content = last.pre[q].content

(* C17 as stated: the reconciliation pass removes and renames no target    *)
(* entry, creates no directory for a vault folder, and leaves unchanged    *)
(* (existence and bytes) every target entry that is not the target of a    *)
(* listed file, pass after pass.                                           *)
C17_PassCreatesNoFolder ==
    last.op = "sync" =>
        /\ PassKeepsTheRest
        /\ \A p \in VaultFolders :
              ~FExists(last.pre, TargetOf(p)) => ~FExists(fs, TargetOf(p))

(* C17, amended: the same, except that the pass does create a directory    *)
(* for a vault folder when it is a missing ancestor of a file the pass     *)
(* writes; a vault folder with no file below it gets no directory, and     *)
(* every entry the pass adds is a listed file or an ancestor of one.       *)
C17_PassCreatesOnlyAncestors ==
    last.op = "sync" =>
        /\ PassKeepsTheRest
        /\ \A p \in VaultFolders :
              (~FExists(last.pre, TargetOf(p))
                  /\ ~\E f \in VaultFiles : IsPrefix(p, f))
              => ~FExists(fs, TargetOf(p))
        /\ \A q \in DOMAIN fs \ DOMAIN last.pre :
              \E f \in VaultFiles :
                  /\ IsPrefix(q, TargetOf(f))
                  /\ FIsFile(fs, q) <=> q = TargetOf(f)

\* a second pass in a row has left in place a target file that no vault file corresponds to, and a first had made a directory
C17_Witness ==
    /\ last.op = "sync" /\ prev.op = "sync" /\ prev.writes > 0
    /\ \E q \in DOMAIN fs :
          /\ FIsFile(fs, q) /\ IsStrictPrefix(Root, q)
          /\ q \notin {TargetOf(p) : p \in DOMAIN vault}
    /\ \E p \in VaultFolders : FIsDir(fs, TargetOf(p))

----------------------------------------------------------------------------
(* The root each event resolves *)

\* the latest invocation is a handler's and nothing has changed since it returned
JustHandled == last.op \in Handlers /\ last.since = {}

(* C18: no handler keeps the resolved root or the answer of the            *)
(* availability check from one event to the next.  Whatever the settings   *)
(* tab has made of the target directory, and whether or not the root has   *)
(* gone away, since the event before, a handler checks the root the        *)
(* settings name now, makes its filesystem calls below that root only and  *)
(* leaves everything outside it (the root in use before included) as it    *)
(* was; and with that root unavailable it does nothing, though the event   *)
(* before succeeded.                                                       *)
C18_RootResolvedPerEvent ==
    JustHandled =>
        /\ last.root = Root
        /\ last.avail <=> FIsDir(last.pre, Root)
        /\ \A i \in Entries(last.log, WriteOps) :
              /\ IsStrictPrefix(Root, last.log[i].path)
              /\ last.log[i].op = "rename" => IsStrictPrefix(Root, last.log[i].path2)
        /\ \A q \in (DOMAIN fs \cup DOMAIN last.pre) :
              ~IsPrefix(Root, q) =>
                  q \in DOMAIN fs /\ q \in DOMAIN last.pre /\ fs[q] = last.pre[q]
        /\ ~FIsDir(last.pre, Root) =>
              fs = last.pre /\ Entries(last.log, WriteOps \cup NoticeOps) = {}

\* an event copied a file under one root, the settings tab named another, and the next event copied under that one
C18_Witness ==
    /\ JustHandled /\ OpOk /\ last.op = "create"
    /\ prev.op \in Handlers /\ prev.avail /\ prev.writes > 0
    /\ prev.since = {"settings"}
    /\ prev.root # last.root
    /\ FIsDir(fs, prev.root)

----------------------------------------------------------------------------
(* The order in which invocations take their I/O steps *)

IsHandler(id) == id \in 1..Len(tasks) /\ tasks[id].op \in Handlers

IsPass(id) == id \in 1..Len(tasks) /\ tasks[id].op = "sync"

(* C12: the filesystem operations of two event handlers never interleave:  *)
(* the stat, read, write, mkdir, rename and remove steps of the handler of *)
(* one event all complete before any step of the handler of the next       *)
(* event does.                                                             *)
C12_HandlersDoNotInterleave ==
    \A i \in 1..Len(turns), j \in 1..Len(turns), k \in 1..Len(turns) :
        (i < j /\ j < k /\ IsHandler(turns[i]) /\ IsHandler(turns[j]))
        => ~(turns[i] = turns[k] /\ turns[j] # turns[i])

(* C13: the four subscriptions are installed before the reconciliation     *)
(* pass starts, so that no vault change made once the pass has started     *)
(* goes without a handler; and the handler of an event that arrives while  *)
(* the pass is in progress takes its steps only after the pass has         *)
(* completed, so that the steps of the pass and of a handler do not        *)
(* interleave.                                                             *)
C13_PassBeforeHandlers ==
    /\ (\E id \in 1..Len(tasks) : IsPass(id)) => subs = Subscriptions
    /\ \A j \in 1..Len(turns), k \in 1..Len(turns) :
          (j < k /\ IsPass(turns[k])) => (turns[j] # 0 /\ ~IsHandler(turns[j]))
    /\ \A id \in 1..Len(tasks), j \in 1..Len(turns) :
          (IsPass(id) /\ Suspended(tasks[id])) => ~IsHandler(turns[j])

----------------------------------------------------------------------------
(* The root an invocation works under *)

\* the calls that take a path of the target filesystem
FsOps == {"stat", "mkdir", "mkdirp", "writeFile", "rm", "rename"}

(* C19: within one invocation of a handler or of the pass, the root whose   *)
(* availability was checked is the root below which the invocation makes    *)
(* all its filesystem calls, also when the settings tab changes the target  *)
(* directory while the invocation is suspended.                             *)
C19_OneRootPerInvocation ==
    \A id \in 1..Len(tasks) :
        \A n \in 1..Len(tasks[id].log) :
            LET e == tasks[id].log[n]
            IN  e.op \in FsOps =>
                    /\ IsPrefix(tasks[id].checked, e.path)
                    /\ e.op = "rename" => IsPrefix(tasks[id].checked, e.path2)

(* C20: the engine never creates the target root: from a state where the   *)
(* root the settings name does not exist, no step of a handler or of the    *)
(* pass leads to a state where it does, also when the root is removed       *)
(* after the invocation's availability check.                               *)
C20_EngineNeverCreatesRoot ==
    [][(tasks' # tasks /\ ~FExists(fs, Root)) => ~FExists(fs', Root)]_vars

----------------------------------------------------------------------------
(* Modified(f) and then Deleted(f) *)

\* invocation i handles Modified(f), the later invocation j Deleted(f), and both have finished
ModifiedThenDeleted(i, j) ==
    /\ i < j
    /\ tasks[i].op = "modify" /\ tasks[j].op = "delete"
    /\ tasks[i].file = tasks[j].file
    /\ ~Suspended(tasks[i]) /\ ~Suspended(tasks[j])

(* C21: when Modified(f) and then Deleted(f) are emitted for the same file *)
(* and their handlers are started in that order, then once both handlers   *)
(* have finished nothing is at f's TargetPath in the target, whatever the  *)
(* order in which the two handlers took their I/O steps.                   *)
C21_DeletedStaysDeleted ==
    \A i \in 1..Len(tasks), j \in 1..Len(tasks) :
        ModifiedThenDeleted(i, j) => ~FExists(fs, Join(Root, tasks[j].file))

====
